---- MODULE Spec2Model ----
(***************************************************************************)
(* kvs: a single-threaded log-structured key-value store (src/src/lib.rs, *)
(* src/src/kvlog.rs).  The model keeps the log at the byte level: the     *)
(* bincode encoding of every record, the BufWriter that sits between the  *)
(* store and the log file, the two-region read of get_kvlog_from_offset,  *)
(* the replay of open and the rewrite of compact.                         *)
(*                                                                         *)
(* WRITE_BUFFER_SIZE and COMPACT_REDUNDANT_THRESHOLD are the program's    *)
(* constants scaled down (16 KiB -> 32 bytes, 1024 -> 2) so that buffer   *)
(* flushes and compactions happen within a few calls; the code depends on *)
(* them only through the comparisons modelled here.                       *)
(***************************************************************************)
EXTENDS Integers, Sequences, FiniteSets, TLC

\* ------------------------------------------------------------------ bounds
\* set and remove are called while fewer than MaxOps set / remove / drop
\* calls were made; a drop can still follow the last of them
MaxOps == 4
\* number of injected filesystem failures in a run
MaxFaults == 1

\* ------------------------------------------------------- program constants
WRITE_BUFFER_SIZE == 32
COMPACT_REDUNDANT_THRESHOLD == 2
\* bincode's fixed-width integers: u32 variant index, u64 string length
TAG_BYTES == 4
LEN_BYTES == 8

\* keys and values are strings, modelled as their UTF-8 bytes:
\* keys "a", "b"; values "" and "1".  Every byte of the model is ASCII.
Keys == {<<97>>, <<98>>}
Vals == {<<>>, <<49>>}

\* ------------------------------------------------------------ Record Codec
\* KvLog::Set(key, value) / KvLog::Rm(key)
new_set(k, v) == [tag |-> "Set", key |-> k, value |-> v]
new_rm(k) == [tag |-> "Rm", key |-> k, value |-> <<>>]

\* little-endian fixed-width integers (the model's numbers are below 2^24)
U32(n) == <<n % 256, (n \div 256) % 256, (n \div 65536) % 256, 0>>
U64(n) == U32(n) \o <<0, 0, 0, 0>>

\* the write_all calls bincode::serialize_into issues for one record, in
\* order: variant index, then for each string its length and its bytes
Pieces(rec) ==
  IF rec.tag = "Set"
  THEN <<U32(0), U64(Len(rec.key)), rec.key, U64(Len(rec.value)), rec.value>>
  ELSE <<U32(1), U64(Len(rec.key)), rec.key>>

RECURSIVE Concat(_)
Concat(ps) == IF ps = <<>> THEN <<>> ELSE Head(ps) \o Concat(Tail(ps))

\* the bytes of one encoded record
Encode(rec) == Concat(Pieces(rec))

DecErr == [ok |-> FALSE, rec |-> new_rm(<<>>), next |-> 0]
StrErr == [ok |-> FALSE, str |-> <<>>, next |-> 0]

\* the value of the 8 length bytes l; -1 for a length with a non-zero byte
\* above the third, which exceeds every file of the model
LenOf(l) ==
  IF \E i \in 4..LEN_BYTES : l[i] # 0 THEN -1
  ELSE l[1] + 256 * l[2] + 65536 * l[3]

\* read_exact of n bytes at 0-based offset p of s: UnexpectedEof when fewer
\* are left
ReadBytes(s, p, n) ==
  IF n < 0 \/ p + n > Len(s) THEN StrErr
  ELSE [ok |-> TRUE, str |-> SubSeq(s, p + 1, p + n), next |-> p + n]

\* a string: its u64 length, then that many bytes
ReadString(s, p) ==
  IF p + LEN_BYTES > Len(s) THEN StrErr
  ELSE ReadBytes(s, p + LEN_BYTES, LenOf(SubSeq(s, p + 1, p + LEN_BYTES)))

\* KvLog::Set: the value string v after the key
DecodeSet(key, v) ==
  IF ~v.ok THEN DecErr
  ELSE [ok |-> TRUE, rec |-> new_set(key, v.str), next |-> v.next]

\* the fields after the variant index t, the key string k first
DecodeVariant(s, t, k) ==
  IF (t # U32(0) /\ t # U32(1)) \/ ~k.ok THEN DecErr
  ELSE IF t = U32(1) THEN [ok |-> TRUE, rec |-> new_rm(k.str), next |-> k.next]
  ELSE DecodeSet(k.str, ReadString(s, k.next))

\* bincode::deserialize_from on a reader positioned at 0-based offset p of
\* the byte sequence s: one record and the offset after it, or a failure
\* (end of input inside the record, or a variant index other than 0 and 1)
Decode(s, p) ==
  IF p + TAG_BYTES > Len(s) THEN DecErr
  ELSE DecodeVariant(s, SubSeq(s, p + 1, p + TAG_BYTES), ReadString(s, p + TAG_BYTES))

\* -------------------------------------------------------------- BufWriter
Written(f, b, ok) == [file |-> f, buf |-> b, ok |-> ok]

\* BufWriter::write_all for each piece in turn, on a writer whose file holds
\* `f` and whose buffer holds `b`: a piece larger than the spare capacity
\* first flushes the buffer to the file (flush_buf writes nothing when the
\* buffer is empty); then a piece as large as the capacity goes to the file
\* directly, any other into the buffer.
\* `ff`: the first write to the file fails (it returns an error with nothing
\* written); the pieces buffered before it stay in the buffer.
RECURSIVE WritePieces(_, _, _, _)
WritePieces(f, b, ps, ff) ==
  IF ps = <<>> THEN Written(f, b, TRUE)
  ELSE IF Len(Head(ps)) > WRITE_BUFFER_SIZE - Len(b) /\ Len(b) > 0
  THEN \* flush_buf
       IF ff THEN Written(f, b, FALSE)
       ELSE WritePieces(f \o b, <<>>, ps, ff)
  ELSE IF Len(Head(ps)) >= WRITE_BUFFER_SIZE
  THEN \* the buffer is empty: write to the file
       IF ff THEN Written(f, b, FALSE)
       ELSE WritePieces(f \o Head(ps), <<>>, Tail(ps), ff)
  ELSE WritePieces(f, b \o Head(ps), Tail(ps), ff)

\* KvLog::serialize_to_writer
serialize_to_writer(f, b, rec, ff) == WritePieces(f, b, Pieces(rec), ff)

\* ------------------------------------------------------------------ results
ResOk == [kind |-> "Ok", val |-> <<>>, err |-> "none"]
ResNone == [kind |-> "None", val |-> <<>>, err |-> "none"]
ResSome(v) == [kind |-> "Some", val |-> v, err |-> "none"]
ResErr(e) == [kind |-> "Err", val |-> <<>>, err |-> e]

\* LogPointerMap = HashMap<String, u64>
EmptyMap == [k \in {} |-> 0]
Insert(m, k, o) == [x \in DOMAIN m \cup {k} |-> IF x = k THEN o ELSE m[x]]
Delete(m, k) == [x \in DOMAIN m \ {k} |-> m[x]]

\* A store `st` is the record of the KvStore fields and of the two files:
\*   file : bytes of the file at the log path (0.bin) on disk
\*   buf  : append_writer.buffer()
\*   lp   : log_pointer
\*   rc   : redundant_count
\*   tmp  : whether compact.tmp exists in the directory
Store(f, b, lp, rc, t) == [file |-> f, buf |-> b, lp |-> lp, rc |-> rc, tmp |-> t]

\* what a call leaves and returns: the store, the result, whether a
\* compaction ran ("none", "ok", "failed"), whether the injected fault hit
Outcome(st, res, c, faulted) ==
  [st |-> st, res |-> res, compact |-> c, faulted |-> faulted]

\* ----------------------------------------------------------- read by offset
ReadErr(e, faulted) == [ok |-> FALSE, rec |-> DecErr.rec, err |-> e, faulted |-> faulted]

\* a decode failure reaches the caller with ErrorKind::Serde
Decoded(d) ==
  IF d.ok THEN [ok |-> TRUE, rec |-> d.rec, err |-> "none", faulted |-> FALSE]
  ELSE ReadErr("Serde", FALSE)

\* KvStore::get_kvlog_from_offset.  rf injects a filesystem failure:
\* "file_len" (metadata), "seek" or "read" (on the file reader).
get_kvlog_from_offset(st, offset, rf) ==
  IF rf = "file_len" THEN ReadErr("Io", TRUE)
  ELSE IF offset >= Len(st.file)
  THEN \* log is still in buffer
       Decoded(Decode(st.buf, offset - Len(st.file)))
  ELSE \* log is in file
       IF rf = "seek" THEN ReadErr("Io", TRUE)
       ELSE IF rf = "read" THEN ReadErr("Serde", TRUE)
       ELSE Decoded(Decode(st.file, offset))

\* the match of KvStore::get on the record read
GetMatch(st, r) ==
  IF ~r.ok THEN Outcome(st, ResErr(r.err), "none", r.faulted)
  ELSE IF r.rec.tag = "Set" THEN Outcome(st, ResSome(r.rec.value), "none", FALSE)
  ELSE Outcome(st, ResErr("Corruption"), "none", FALSE)

\* KvStore::get
GetCall(st, key, rf) ==
  IF key \notin DOMAIN st.lp THEN Outcome(st, ResNone, "none", FALSE)
  ELSE GetMatch(st, get_kvlog_from_offset(st, st.lp[key], rf))

\* get(key) when the filesystem does not fail
get(st, key) == GetCall(st, key, "none").res

\* --------------------------------------------------------------- compaction
\* a sort by descending offset: the key with the largest offset first
MinKey_Largest(lp) == CHOOSE x \in DOMAIN lp : \A y \in DOMAIN lp : lp[x] >= lp[y]

\* the key of the index with the smallest offset
MinKey(lp) == CHOOSE x \in DOMAIN lp : \A y \in DOMAIN lp : lp[x] <= lp[y]

\* the keys of the index by ascending offset (sort_unstable_by_key)
RECURSIVE SortedFrom(_, _)
SortedFrom(lp, k) == <<k>> \o (IF DOMAIN lp = {k} THEN <<>>
                                ELSE SortedFrom(Delete(lp, k), MinKey(Delete(lp, k))))

SortedKeys(lp) == IF DOMAIN lp = {} THEN <<>> ELSE SortedFrom(lp, MinKey(lp))

ReadFault(cf) ==
  IF cf = "c_file_len" THEN "file_len"
  ELSE IF cf = "c_seek" THEN "seek"
  ELSE IF cf = "c_read" THEN "read" ELSE "none"

\* the new log while compact writes it: the temporary file, the new
\* writer's buffer, the private copy of the index
NewLog(ok, f, b, lp, faulted) ==
  [ok |-> ok, file |-> f, buf |-> b, lp |-> lp, faulted |-> faulted]

\* the loop of compact over the keys by ascending offset: each live record
\* is read from the old log `st` and appended through the new writer
RECURSIVE CompactLoop(_, _, _, _)
\* compact noting for each key the offset after its record, not before
CompactNext_OffsetAfter(st, keys, cf, nl, w) ==
  IF ~w.ok THEN NewLog(FALSE, w.file, w.buf, nl.lp, TRUE)
  ELSE CompactLoop(st, Tail(keys), cf,
         NewLog(TRUE, w.file, w.buf,
                Insert(nl.lp, Head(keys), Len(w.file) + Len(w.buf)), FALSE))

\* one record was appended (w): go on with the next key
CompactNext(st, keys, cf, nl, w) ==
  IF ~w.ok THEN NewLog(FALSE, w.file, w.buf, nl.lp, TRUE)
  ELSE CompactLoop(st, Tail(keys), cf,
         NewLog(TRUE, w.file, w.buf,
                Insert(nl.lp, Head(keys), Len(nl.file) + Len(nl.buf)), FALSE))

\* compact appending every live record twice
CompactCopy_Twice(st, keys, cf, nl, r) ==
  IF ~r.ok THEN NewLog(FALSE, nl.file, nl.buf, nl.lp, r.faulted)
  ELSE IF cf = "file_len_tmp" THEN NewLog(FALSE, nl.file, nl.buf, nl.lp, TRUE)
  ELSE CompactNext(st, keys, cf, nl,
         serialize_to_writer(
           serialize_to_writer(nl.file, nl.buf, r.rec, FALSE).file,
           serialize_to_writer(nl.file, nl.buf, r.rec, FALSE).buf,
           r.rec, cf = "flush_tmp"))

\* one record was read (r): note its new offset and append it
CompactCopy(st, keys, cf, nl, r) ==
  IF ~r.ok THEN NewLog(FALSE, nl.file, nl.buf, nl.lp, r.faulted)
  ELSE IF cf = "file_len_tmp" THEN NewLog(FALSE, nl.file, nl.buf, nl.lp, TRUE)
  ELSE CompactNext(st, keys, cf, nl,
         serialize_to_writer(nl.file, nl.buf, r.rec, cf = "flush_tmp"))

CompactLoop(st, keys, cf, nl) ==
  IF keys = <<>> THEN nl
  ELSE CompactCopy(st, keys, cf, nl,
         get_kvlog_from_offset(st, st.lp[Head(keys)], ReadFault(cf)))

\* compact updating the store's own index entry by entry instead of a
\* private copy: a failed attempt leaves the new offsets behind
CompactInstall_InPlace(st, cf, nl) ==
  IF ~nl.ok THEN Outcome([st EXCEPT !.tmp = TRUE, !.lp = nl.lp], ResOk, "failed", nl.faulted)
  ELSE IF cf \in {"open_tmp", "rename"}
  THEN Outcome([st EXCEPT !.tmp = TRUE, !.lp = nl.lp], ResOk, "failed", TRUE)
  ELSE Outcome(Store(nl.file, nl.buf, nl.lp, 0, FALSE), ResOk, "ok", FALSE)

\* the end of compact: the new reader, the rename, the swap
CompactInstall(st, cf, nl) ==
  IF ~nl.ok THEN Outcome([st EXCEPT !.tmp = TRUE], ResOk, "failed", nl.faulted)
  ELSE IF cf \in {"open_tmp", "rename"}
  THEN Outcome([st EXCEPT !.tmp = TRUE], ResOk, "failed", TRUE)
  ELSE Outcome(Store(nl.file, nl.buf, nl.lp, 0, FALSE), ResOk, "ok", FALSE)

\* KvStore::compact.  On success the store reads and appends the new file;
\* on failure only the temporary file is left behind.
Compact(st, cf) ==
  IF st.tmp /\ cf = "remove_tmp" THEN Outcome(st, ResOk, "failed", TRUE)
  ELSE IF cf = "create_tmp"
  THEN Outcome([st EXCEPT !.tmp = FALSE], ResOk, "failed", TRUE)
  ELSE CompactInstall(st, cf,
         CompactLoop(st, SortedKeys(st.lp), cf, NewLog(TRUE, <<>>, <<>>, st.lp, FALSE)))

\* increment_redundant attempting only when the counter reaches the
\* threshold, not again above it
increment_redundant_NoRetry(st, cf) ==
  IF st.rc + 1 = COMPACT_REDUNDANT_THRESHOLD
  THEN Compact([st EXCEPT !.rc = st.rc + 1], cf)
  ELSE Outcome([st EXCEPT !.rc = st.rc + 1], ResOk, "none", FALSE)

\* KvStore::increment_redundant: the caller's result stays Ok whatever the
\* compaction does
increment_redundant(st, cf) ==
  IF st.rc + 1 >= COMPACT_REDUNDANT_THRESHOLD
  THEN Compact([st EXCEPT !.rc = st.rc + 1], cf)
  ELSE Outcome([st EXCEPT !.rc = st.rc + 1], ResOk, "none", FALSE)

\* ------------------------------------------------------------- set / remove
\* set counting every record it appends, also that of a fresh key
SetAppended_CountsFresh(st, key, new_offset, w, f) ==
  IF ~w.ok
  THEN Outcome([st EXCEPT !.file = w.file, !.buf = w.buf], ResErr("Serde"), "none", TRUE)
  ELSE increment_redundant(
         [st EXCEPT !.file = w.file, !.buf = w.buf,
                    !.lp = Insert(st.lp, key, new_offset)], f)

\* set after the append (w): update the index, count an overwrite
SetAppended(st, key, new_offset, w, f) ==
  IF ~w.ok
  THEN Outcome([st EXCEPT !.file = w.file, !.buf = w.buf], ResErr("Serde"), "none", TRUE)
  ELSE IF key \in DOMAIN st.lp
  THEN increment_redundant(
         [st EXCEPT !.file = w.file, !.buf = w.buf,
                    !.lp = Insert(st.lp, key, new_offset)], f)
  ELSE Outcome([st EXCEPT !.file = w.file, !.buf = w.buf,
                          !.lp = Insert(st.lp, key, new_offset)], ResOk, "none", FALSE)

\* set taking the file length alone as the offset of its record, without
\* the bytes still buffered
SetCall_FileLenOnly(st, key, value, f) ==
  IF f = "file_len" THEN Outcome(st, ResErr("Io"), "none", TRUE)
  ELSE SetAppended(st, key, Len(st.file),
         serialize_to_writer(st.file, st.buf, new_set(key, value), f = "flush"), f)

\* KvStore::set
SetCall(st, key, value, f) ==
  IF f = "file_len" THEN Outcome(st, ResErr("Io"), "none", TRUE)
  ELSE SetAppended(st, key, Len(st.file) + Len(st.buf),
         serialize_to_writer(st.file, st.buf, new_set(key, value), f = "flush"), f)

\* remove that appends the Rm record and forgets to delete the index entry
RemoveAppended_KeepsKey(st, key, w, f) ==
  IF ~w.ok
  THEN Outcome([st EXCEPT !.file = w.file, !.buf = w.buf], ResErr("Serde"), "none", TRUE)
  ELSE increment_redundant([st EXCEPT !.file = w.file, !.buf = w.buf], f)

\* remove after the append (w): update the index, count the removal
RemoveAppended(st, key, w, f) ==
  IF ~w.ok
  THEN Outcome([st EXCEPT !.file = w.file, !.buf = w.buf], ResErr("Serde"), "none", TRUE)
  ELSE increment_redundant(
         [st EXCEPT !.file = w.file, !.buf = w.buf, !.lp = Delete(st.lp, key)], f)

\* remove that appends the Rm record before it looks the key up
RemoveCall_AppendsFirst(st, key, f) ==
  IF key \in DOMAIN st.lp
  THEN RemoveAppended(st, key,
         serialize_to_writer(st.file, st.buf, new_rm(key), f = "flush"), f)
  ELSE Outcome([st EXCEPT !.buf = st.buf \o Encode(new_rm(key))],
               ResErr("KeyNotFound"), "none", FALSE)

\* KvStore::remove
RemoveCall(st, key, f) ==
  IF key \in DOMAIN st.lp
  THEN RemoveAppended(st, key,
         serialize_to_writer(st.file, st.buf, new_rm(key), f = "flush"), f)
  ELSE Outcome(st, ResErr("KeyNotFound"), "none", FALSE)

\* --------------------------------------------------------------------- open
\* the replay loop of KvStore::open over the file bytes f from offset pos
RECURSIVE Replay(_, _, _, _)
\* the replay counting every record, not only those that replace or remove
\* an entry
ReplayApply_CountsAll(f, pos, lp, rc, d) ==
  IF ~d.ok THEN [ok |-> FALSE, lp |-> lp, rc |-> rc]
  ELSE Replay(f, d.next,
              IF d.rec.tag = "Set" THEN Insert(lp, d.rec.key, pos)
                                   ELSE Delete(lp, d.rec.key),
              rc + 1)

\* one record was decoded (d) at pos: apply it to the index
ReplayApply(f, pos, lp, rc, d) ==
  IF ~d.ok THEN [ok |-> FALSE, lp |-> lp, rc |-> rc]
  ELSE Replay(f, d.next,
              IF d.rec.tag = "Set" THEN Insert(lp, d.rec.key, pos)
                                   ELSE Delete(lp, d.rec.key),
              IF d.rec.key \in DOMAIN lp THEN rc + 1 ELSE rc)

Replay(f, pos, lp, rc) ==
  IF ~(pos < Len(f)) THEN [ok |-> TRUE, lp |-> lp, rc |-> rc]
  ELSE ReplayApply(f, pos, lp, rc, Decode(f, pos))

\* the store open returns after the replay r
Opened(f, t, r) ==
  IF r.ok THEN Outcome(Store(f, <<>>, r.lp, r.rc, t), ResOk, "none", FALSE)
  ELSE Outcome(Store(f, <<>>, EmptyMap, 0, t), ResErr("Serde"), "none", FALSE)

\* KvStore::open on a directory whose log file holds f.  Faults: "open_file"
\* (the file cannot be opened), "fill_buf" (the read of has_more or the seek
\* of position fails), both Io; "read" (a read inside
\* deserialize_from_reader fails).
OpenCall(f, t, of) ==
  IF of \in {"open_file", "fill_buf"}
  THEN Outcome(Store(f, <<>>, EmptyMap, 0, t), ResErr("Io"), "none", TRUE)
  ELSE IF of = "read" /\ Len(f) > 0
  THEN Outcome(Store(f, <<>>, EmptyMap, 0, t), ResErr("Serde"), "none", TRUE)
  ELSE Opened(f, t, Replay(f, 0, EmptyMap, 0))

\* Drop for KvStore: flush the buffer; then the fields are dropped, and the
\* drop of the BufWriter flushes what is still buffered.  `ff`: the write
\* of the first flush fails (the error is printed); the second flush writes
\* the buffer.
DropCall(st, ff) ==
  IF ff /\ Len(st.buf) > 0
  THEN Outcome(Store(st.file \o st.buf, <<>>, EmptyMap, 0, st.tmp), ResOk, "none", TRUE)
  ELSE Outcome(Store(st.file \o st.buf, <<>>, EmptyMap, 0, st.tmp), ResOk, "none", FALSE)

\* Drop for KvStore when the writes of both flushes fail: the buffered bytes
\* are lost
DropCallLost(st) ==
  IF Len(st.buf) > 0
  THEN Outcome(Store(st.file, <<>>, EmptyMap, 0, st.tmp), ResOk, "none", TRUE)
  ELSE Outcome(Store(st.file, <<>>, EmptyMap, 0, st.tmp), ResOk, "none", FALSE)

\* ------------------------------------------------------------------- state
VARIABLES
  alive,            \* a KvStore value exists (between open and drop)
  file,             \* bytes of the log file 0.bin on disk
  buf,              \* append_writer.buffer()
  log_pointer,      \* KvStore.log_pointer
  redundant_count,  \* KvStore.redundant_count
  tmp_exists,       \* compact.tmp exists in the directory
  kv,               \* history: the plain key -> value map of the successful calls
  everSet,          \* history: the keys some successful set has written
  last,             \* history: the last call, its injected fault and its result
  atDrop,           \* history: what get returned for each key right before the last drop
  nops,             \* history: number of set / remove / drop calls (and crashes)
  faults,           \* history: number of injected filesystem failures that changed a call
  redundant,        \* history: overwriting sets and successful removes since the
                    \* last successful compaction
  starts            \* history: the start offsets of the complete records of the
                    \* logical stream (flushed bytes, then buffered bytes)

vars == <<alive, file, buf, log_pointer, redundant_count, tmp_exists,
          kv, everSet, last, atDrop, nops, faults, redundant, starts>>

Cur == Store(file, buf, log_pointer, redundant_count, tmp_exists)

Install(st) ==
  /\ file' = st.file
  /\ buf' = st.buf
  /\ log_pointer' = st.lp
  /\ redundant_count' = st.rc
  /\ tmp_exists' = st.tmp

\* what the history keeps of an injected fault
Class(f) == IF f = "none" THEN "none" ELSE "io"

Call(op, k, v, res, f, c) ==
  [op |-> op, key |-> k, val |-> v, res |-> res, fault |-> Class(f), compact |-> c]

CompactFaults == {"remove_tmp", "create_tmp", "c_file_len", "c_seek", "c_read",
                  "file_len_tmp", "flush_tmp", "open_tmp", "rename"}
SetFaults == {"none", "file_len", "flush"} \cup CompactFaults
RemoveFaults == {"none", "flush"} \cup CompactFaults
GetFaults == {"none", "file_len", "seek", "read"}
OpenFaults == {"none", "open_file", "fill_buf", "read"}
DropFaults == {"none", "flush", "flush_all"}

\* the failing writes a fault of Drop stands for
FailedWrites(f) == IF f = "flush_all" THEN 2 ELSE IF f = "flush" THEN 1 ELSE 0

\* the state after KvStore::open on a fresh directory
Init ==
  /\ alive = TRUE
  /\ file = <<>>
  /\ buf = <<>>
  /\ log_pointer = EmptyMap
  /\ redundant_count = 0
  /\ tmp_exists = FALSE
  /\ kv = [k \in Keys |-> ResNone]
  /\ everSet = {}
  /\ last = Call("open", <<>>, <<>>, ResOk, "none", "none")
  /\ atDrop = [k \in Keys |-> ResNone]
  /\ nops = 0
  /\ faults = 0
  /\ redundant = 0
  /\ starts = {}

\* a filesystem failure is injected only while the budget lasts ...
Budget(f) == f # "none" => faults < MaxFaults

\* ... and only where it changes the call
Injected(f, faulted) ==
  /\ f # "none" => faulted
  /\ faults' = IF f # "none" THEN faults + 1 ELSE faults

\* the history count after a call with outcome r; `hit`: the call replaced
\* or removed an index entry when it succeeded
Counted(r, hit) ==
  IF r.compact = "ok" THEN 0
  ELSE IF r.res = ResOk /\ hit THEN redundant + 1
  ELSE redundant

\* the start offsets of the records of the byte sequence s from offset pos,
\* as far as they decode one after the other
RECURSIVE RecordStarts(_, _)
RecordStarts(s, pos) ==
  IF ~(pos < Len(s)) \/ ~Decode(s, pos).ok THEN {}
  ELSE {pos} \cup RecordStarts(s, Decode(s, pos).next)

\* the record starts after a set / remove with outcome r: those of the new
\* log after a successful compaction; one more, at the end of the stream as
\* it was, after a successful append; the same after a failed one
Appended(r) ==
  IF r.compact = "ok" THEN RecordStarts(r.st.file \o r.st.buf, 0)
  ELSE IF r.res = ResOk THEN starts \cup {Len(file) + Len(buf)}
  ELSE starts

Set(k, v, f) ==
  /\ alive /\ nops < MaxOps /\ Budget(f)
  /\ \E r \in {SetCall(Cur, k, v, f)} :
       /\ Injected(f, r.faulted)
       /\ Install(r.st)
       /\ kv' = IF r.res = ResOk THEN [kv EXCEPT ![k] = ResSome(v)] ELSE kv
       /\ everSet' = IF r.res = ResOk THEN everSet \cup {k} ELSE everSet
       /\ last' = Call("set", k, v, r.res, f, r.compact)
       /\ redundant' = Counted(r, k \in DOMAIN log_pointer)
       /\ starts' = Appended(r)
  /\ nops' = nops + 1
  /\ UNCHANGED <<alive, atDrop>>

Remove(k, f) ==
  /\ alive /\ nops < MaxOps /\ Budget(f)
  /\ \E r \in {RemoveCall(Cur, k, f)} :
       /\ Injected(f, r.faulted)
       /\ Install(r.st)
       /\ kv' = IF r.res = ResOk THEN [kv EXCEPT ![k] = ResNone] ELSE kv
       /\ last' = Call("remove", k, <<>>, r.res, f, r.compact)
       /\ redundant' = Counted(r, TRUE)
       /\ starts' = Appended(r)
  /\ nops' = nops + 1
  /\ UNCHANGED <<alive, atDrop, everSet>>

\* get changes nothing of the store
Get(k, f) ==
  /\ alive /\ Budget(f)
  /\ \E r \in {GetCall(Cur, k, f)} :
       /\ Injected(f, r.faulted)
       /\ last' = Call("get", k, <<>>, r.res, f, "none")
  /\ UNCHANGED <<alive, file, buf, log_pointer, redundant_count, tmp_exists,
                 kv, everSet, atDrop, nops, redundant, starts>>

\* f = "flush": one failing write; f = "flush_all": two failing writes
Drop(f) ==
  /\ alive /\ nops < MaxOps + 1
  /\ faults + FailedWrites(f) <= MaxFaults
  /\ \E r \in {IF f = "flush_all" THEN DropCallLost(Cur) ELSE DropCall(Cur, f = "flush")} :
       /\ f # "none" => r.faulted
       /\ faults' = faults + FailedWrites(f)
       /\ Install(r.st)
       /\ last' = Call("drop", <<>>, <<>>, ResOk, f, "none")
  /\ atDrop' = [k \in Keys |-> get(Cur, k)]
  /\ alive' = FALSE
  /\ nops' = nops + 1
  /\ starts' = {}
  /\ UNCHANGED <<kv, everSet, redundant>>

Open(f) ==
  /\ ~alive /\ Budget(f)
  /\ \E r \in {OpenCall(file, tmp_exists, f)} :
       /\ Injected(f, r.faulted)
       /\ Install(r.st)
       /\ alive' = (r.res = ResOk)
       /\ last' = Call("open", <<>>, <<>>, r.res, f, "none")
       /\ starts' = IF r.res = ResOk THEN RecordStarts(file, 0) ELSE {}
  /\ UNCHANGED <<kv, everSet, atDrop, nops, redundant>>

SetStep == \E k \in Keys, v \in Vals, f \in SetFaults : Set(k, v, f)
RemoveStep == \E k \in Keys, f \in RemoveFaults : Remove(k, f)
GetStep == \E k \in Keys, f \in GetFaults : Get(k, f)
DropStep == \E f \in DropFaults : Drop(f)
OpenStep == \E f \in OpenFaults : Open(f)

Next == SetStep \/ RemoveStep \/ GetStep \/ DropStep \/ OpenStep

Spec == Init /\ [][Next]_vars

\* ------------------------------------------------------------ damaged file
\* The environment: some other writer overwrites one byte of a live record
\* in the flushed log file, turning its variant index into Rm's or its key
\* into another key.  Counted as a fault.
Damage(k, tagByte) ==
  /\ alive /\ faults < MaxFaults
  /\ k \in DOMAIN log_pointer
  /\ log_pointer[k] + TAG_BYTES + LEN_BYTES + Len(k) <= Len(file)
  /\ file' = IF tagByte
             THEN [file EXCEPT ![log_pointer[k] + 1] = 1]
             ELSE [file EXCEPT ![log_pointer[k] + TAG_BYTES + LEN_BYTES + 1] =
                                  (CHOOSE x \in Keys : x # k)[1]]
  /\ faults' = faults + 1
  /\ last' = Call("damage", k, <<>>, ResOk, "io", "none")
  /\ UNCHANGED <<alive, buf, log_pointer, redundant_count, tmp_exists,
                 kv, everSet, atDrop, nops, redundant, starts>>

DamageStep == \E k \in Keys, tagByte \in BOOLEAN : Damage(k, tagByte)

NextDamage == Next \/ DamageStep

SpecDamage == Init /\ [][NextDamage]_vars

\* -------------------------------------------------------------------- crash
\* The process is killed: the KvStore value and the bytes still in the
\* BufWriter are gone without the flush of Drop; the files stay as they are.
CrashCall(st) == Outcome(Store(st.file, <<>>, EmptyMap, 0, st.tmp), ResOk, "none", FALSE)

Crash ==
  /\ alive /\ nops < MaxOps + 1
  /\ \E r \in {CrashCall(Cur)} : Install(r.st)
  /\ last' = Call("crash", <<>>, <<>>, ResOk, "none", "none")
  /\ atDrop' = [k \in Keys |-> get(Cur, k)]
  /\ alive' = FALSE
  /\ nops' = nops + 1
  /\ starts' = {}
  /\ UNCHANGED <<kv, everSet, faults, redundant>>

NextCrash == Next \/ Crash

SpecCrash == Init /\ [][NextCrash]_vars

\* ------------------------------------------------------------------ claims
\* the record the last call appended
LastRecord(l) == IF l.op = "set" THEN new_set(l.key, l.val) ELSE new_rm(l.key)

\* the store a set / remove step (described by l, taken from st) holds
\* after its append, its index update and its count, before any compaction
BeforeCompact(st, l, w) ==
  Store(w.file, w.buf,
        IF l.op = "set" THEN Insert(st.lp, l.key, Len(st.file) + Len(st.buf))
                        ELSE Delete(st.lp, l.key),
        st.rc + 1, st.tmp)

PreCompact(st, l) ==
  BeforeCompact(st, l, serialize_to_writer(st.file, st.buf, LastRecord(l), FALSE))

\* C1: as long as no filesystem failure was injected, get(k) returns for
\* every key what the plain key -> value map of the calls made so far holds
\* (the value of the latest set, no value after a remove or without a set).
C1_GetIsMapLookup ==
  (alive /\ faults = 0) => \A k \in Keys : get(Cur, k) = kv[k]

\* C2: right after a successful remove(k), get(k) returns no value and a
\* second remove(k) fails with KeyNotFound; for a key no set has written,
\* get(k) returns no value and remove(k) fails with KeyNotFound.
C2_TombstoneAndMissingKey ==
  alive =>
    /\ (last.op = "remove" /\ last.res = ResOk) =>
         /\ get(Cur, last.key) = ResNone
         /\ RemoveCall(Cur, last.key, "none").res = ResErr("KeyNotFound")
    /\ \A k \in Keys \ everSet :
         /\ get(Cur, k) = ResNone
         /\ RemoveCall(Cur, k, "none").res = ResErr("KeyNotFound")

\* C2 witness: a key that was set and removed, and whose second remove has
\* just failed with KeyNotFound
C2_Witness ==
  /\ alive /\ last.op = "remove" /\ last.res = ResErr("KeyNotFound")
  /\ last.key \in everSet /\ kv[last.key] = ResNone

\* C3: every offset of the index resolves, by the two-region rule, to one
\* complete record; and right after a successful set(k, v), get(k) is v.
C3_IndexOffsetsReadable ==
  alive =>
    /\ \A k \in DOMAIN log_pointer :
         get_kvlog_from_offset(Cur, log_pointer[k], "none").ok
    /\ (last.op = "set" /\ last.res = ResOk) => get(Cur, last.key) = ResSome(last.val)

\* C4: after a drop whose flush succeeded and a successful open, get returns
\* for every key what it returned right before the drop.
C4_ReopenKeepsGetResults ==
  (alive /\ last.op = "open" /\ last.res = ResOk /\ faults = 0) =>
    \A k \in Keys : get(Cur, k) = atDrop[k]

\* C5: a step whose compaction succeeds leaves the keys of the index and the
\* result of get for each of them as they were right before the compaction.
C5_CompactionKeepsGets ==
  [][(last'.compact = "ok") =>
       /\ DOMAIN log_pointer' = DOMAIN PreCompact(Cur, last').lp
       /\ \A k \in Keys : get(Cur', k) = get(PreCompact(Cur, last'), k)]_vars

\* C6: a step whose compaction fails (at any step up to and including the
\* rename) leaves the log file, the write buffer, the index and the counter
\* as the append, the index update and the count of that step made them;
\* only the temporary file may remain, and no later call depends on it.
C6_FailedCompactionChangesNothing ==
  [][(last'.compact = "failed") =>
       \E pre \in {PreCompact(Cur, last')} :
         /\ file' = pre.file
         /\ buf' = pre.buf
         /\ log_pointer' = pre.lp
         /\ redundant_count' = pre.rc
         /\ \A k \in Keys :
              /\ GetCall(Cur', k, "none").res = get(pre, k)
              /\ RemoveCall(Cur', k, "none").res = RemoveCall(pre, k, "none").res]_vars

\* C6 witness: a compaction has just failed on an injected filesystem
\* failure, with a live key in the index
C6_Witness ==
  /\ alive /\ last.compact = "failed" /\ last.fault = "io"
  /\ DOMAIN log_pointer # {}

\* C7: a set or remove whose compaction failed returned success, and the
\* next get sees its effect.
C7_FailedCompactionIsSilent ==
  (alive /\ last.op \in {"set", "remove"} /\ last.compact = "failed") =>
    /\ last.res = ResOk
    /\ get(Cur, last.key) = (IF last.op = "set" THEN ResSome(last.val) ELSE ResNone)

\* C8: a remove of a key absent from the index fails with KeyNotFound and
\* changes neither the file, the buffer, the index, the counter nor the
\* temporary file, and attempts no compaction.
C8_RemoveAbsentHasNoEffect ==
  [][(last'.op = "remove" /\ last'.key \notin DOMAIN log_pointer) =>
       /\ last'.res = ResErr("KeyNotFound")
       /\ last'.compact = "none"
       /\ UNCHANGED <<file, buf, log_pointer, redundant_count, tmp_exists>>]_vars

\* C8 witness: a remove has just failed with KeyNotFound on a store whose
\* log and counter are not empty
C8_Witness ==
  /\ alive /\ last.op = "remove" /\ last.res = ResErr("KeyNotFound")
  /\ Len(file) + Len(buf) > 0 /\ redundant_count > 0

\* C9: for a key of the index, get returns the value of the record at the
\* stored offset when that record is a Set for this very key, and fails with
\* Corruption when it is a Rm or a Set for another key.
C9_GetChecksTheRecord ==
  alive =>
    \A k \in DOMAIN log_pointer :
      get_kvlog_from_offset(Cur, log_pointer[k], "none").ok =>
        get(Cur, k) =
          (IF /\ get_kvlog_from_offset(Cur, log_pointer[k], "none").rec.tag = "Set"
              /\ get_kvlog_from_offset(Cur, log_pointer[k], "none").rec.key = k
           THEN ResSome(get_kvlog_from_offset(Cur, log_pointer[k], "none").rec.value)
           ELSE ResErr("Corruption"))

\* C10: a call that failed on an injected filesystem failure returned an
\* error of kind Io.
C10_FilesystemFailureIsIo ==
  (last.fault = "io" /\ last.res.kind = "Err") => last.res.err = "Io"

\* the latest record of k in the store st is a Set that lies whole in the
\* flushed file
FlushedSet(st, k) ==
  /\ k \in DOMAIN st.lp
  /\ Decode(st.file, st.lp[k]).ok
  /\ Decode(st.file, st.lp[k]).rec.tag = "Set"

\* the store open builds after a crash of the store st
Recovered(st) == OpenCall(CrashCall(st).st.file, st.tmp, "none")

\* C11: a key whose latest Set record was whole in the flushed file before a
\* successful compaction is still recovered, with that value, by a crash
\* right after the compaction (after the rename, before any later flush)
\* followed by open.
C11_CompactionIsCrashSafe ==
  [][(last'.compact = "ok") =>
       \A k \in Keys :
         FlushedSet(PreCompact(Cur, last'), k) =>
           /\ Recovered(Cur').res = ResOk
           /\ get(Recovered(Cur').st, k) =
                ResSome(Decode(PreCompact(Cur, last').file,
                               PreCompact(Cur, last').lp[k]).rec.value)]_vars

\* C12: a step whose compaction succeeds leaves the log file on disk no
\* larger than it was right before the compaction (after the append of that
\* step).
C12_CompactionDoesNotGrowFile ==
  [][(last'.compact = "ok") => Len(file') <= Len(PreCompact(Cur, last').file)]_vars

\* C12 witness: a compaction has just succeeded and part of the new log is
\* on disk
C12_Witness ==
  /\ alive /\ last.compact = "ok" /\ Len(file) > 0 /\ DOMAIN log_pointer # {}

\* the index the records of the logical stream of st (flushed bytes, then
\* buffered bytes) determine: each key whose most recent record is a Set,
\* with the start offset of that record
StreamIndex(st) == Replay(st.file \o st.buf, 0, EmptyMap, 0)

\* the largest offset of P
Latest(P) == CHOOSE p \in P : \A q \in P : q <= p

\* the start offsets of the records for key k in the logical stream s
KeyRecords(s, k) ==
  {p \in starts : \E d \in {Decode(s, p)} : d.ok /\ d.rec.key = k}

\* P holds the starts of the records for key k in the stream s: k is in the
\* index exactly when the latest of them is a Set, and then the index holds
\* its offset and the record decoded there is a Set for k
IndexedAsLatest(s, k, P) ==
  /\ k \in DOMAIN log_pointer <=> (P # {} /\ Decode(s, Latest(P)).rec.tag = "Set")
  /\ k \in DOMAIN log_pointer =>
       /\ log_pointer[k] = Latest(P)
       /\ \E d \in {Decode(s, log_pointer[k])} :
            d.ok /\ d.rec.tag = "Set" /\ d.rec.key = k

\* C13: between operations a key is in the index exactly when the most
\* recent record for that key in the logical stream (flushed bytes, then
\* buffered bytes) is a Set; the offset stored for the key is the start of
\* that record, and the record decoded there is a Set with this key.
C13_IndexMatchesStream ==
  alive =>
    \E s \in {file \o buf} :
      \A k \in Keys :
        \E P \in {KeyRecords(s, k)} : IndexedAsLatest(s, k, P)

\* C13 witness: after a failed append, whose pieces stay in the stream, a
\* later set has put its record behind them and the index points at it
C13_Witness ==
  /\ alive /\ faults > 0 /\ last.op = "set" /\ last.res = ResOk
  /\ ~StreamIndex(Cur).ok
  /\ log_pointer[last.key] > 0

\* C14: after a run of set / remove calls without a filesystem failure, the
\* index (keys and offsets) and the counter that open rebuilds from the log
\* file the teardown leaves are the index and the counter the live store
\* held at the teardown.
C14_ReplayEqualsLiveState ==
  [][(last'.op = "drop" /\ faults' = 0) =>
       /\ OpenCall(file', tmp_exists', "none").res = ResOk
       /\ OpenCall(file', tmp_exists', "none").st.lp = log_pointer
       /\ OpenCall(file', tmp_exists', "none").st.rc = redundant_count]_vars

\* C14 witness: a store reopened after a teardown, with a live key that is
\* not at the start of the log and with a counter above 0
C14_Witness ==
  /\ alive /\ last.op = "open" /\ last.res = ResOk /\ faults = 0
  /\ redundant_count > 0
  /\ \E k \in DOMAIN log_pointer : log_pointer[k] > 0

\* C15: in a run without a filesystem failure the counter of a live store
\* is the number of sets that overwrote an index entry plus the number of
\* successful removes since the last successful compaction (since the start
\* of the log without one); a get, a failed remove and a set of a fresh key
\* leave the counter as it was, and a successful compaction leaves it at 0.
C15_CounterCountsRedundantRecords ==
  [][/\ (alive' /\ faults' = 0) => redundant_count' = redundant'
     /\ (last'.op = "get") => redundant_count' = redundant_count
     /\ (last'.op = "remove" /\ last'.res # ResOk) => redundant_count' = redundant_count
     /\ (last'.op = "set" /\ last'.res = ResOk /\ last'.key \notin DOMAIN log_pointer) =>
          redundant_count' = redundant_count
     /\ (last'.compact = "ok") => redundant_count' = 0]_vars

\* C15 witness: a successful remove has just been counted, below the
\* threshold, with another key still in the index
C15_Witness ==
  /\ alive /\ faults = 0 /\ last.op = "remove" /\ last.res = ResOk
  /\ last.compact = "none" /\ redundant_count = 1 /\ redundant = 1
  /\ DOMAIN log_pointer # {}

\* the length of one Set record for each key of ks, with the value the
\* record at the key's offset in the logical stream of st carries
RECURSIVE LiveLen(_, _)
LiveLen(st, ks) ==
  IF ks = {} THEN 0
  ELSE Len(Encode(Decode(st.file \o st.buf, st.lp[CHOOSE k \in ks : TRUE]).rec))
       + LiveLen(st, ks \ {CHOOSE k \in ks : TRUE})

\* C16: after a successful compaction the logical log (new file, then the
\* new writer's buffer) is a sequence of records without a Rm and without a
\* second record for any key, exactly as long as one Set record per key of
\* the index; the index holds the start offset of each key's record, which
\* is a Set for that key; and without a filesystem failure in the run the
\* keys are those that hold a value and each record carries the key's
\* latest value.
C16_CompactedLogIsLiveRecords ==
  [][(last'.compact = "ok") =>
       /\ StreamIndex(Cur').ok
       /\ StreamIndex(Cur').lp = log_pointer'
       /\ StreamIndex(Cur').rc = 0
       /\ Len(file') + Len(buf') = LiveLen(Cur', DOMAIN log_pointer')
       /\ \A k \in DOMAIN log_pointer' :
            /\ Decode(file' \o buf', log_pointer'[k]).rec.tag = "Set"
            /\ Decode(file' \o buf', log_pointer'[k]).rec.key = k
            /\ faults' = 0 =>
                 kv'[k] = ResSome(Decode(file' \o buf', log_pointer'[k]).rec.value)
       /\ faults' = 0 => DOMAIN log_pointer' = {k \in Keys : kv'[k] # ResNone}]_vars

\* C16 witness: a compaction has just succeeded with two keys in the index
C16_Witness ==
  /\ alive /\ last.compact = "ok" /\ faults = 0
  /\ DOMAIN log_pointer = Keys

\* C17: a successful compaction keeps the order of the live records: two
\* keys of the index whose offsets were in one order before the compaction
\* have their new offsets in the same order.
C17_CompactionKeepsOrder ==
  [][(last'.compact = "ok") =>
       \A a \in DOMAIN log_pointer', b \in DOMAIN log_pointer' :
         PreCompact(Cur, last').lp[a] < PreCompact(Cur, last').lp[b] =>
           log_pointer'[a] < log_pointer'[b]]_vars

\* C17 witness: a compaction has just succeeded with both keys in the
\* index, the record of "b" before that of "a"
C17_Witness ==
  /\ alive /\ last.compact = "ok"
  /\ DOMAIN log_pointer = Keys
  /\ log_pointer[<<98>>] < log_pointer[<<97>>]

\* the step described by l, taken from the store st, is a set that
\* overwrites an index entry or a successful remove, and brings the counter
\* to the threshold or above
Triggers(st, l) ==
  /\ l.op \in {"set", "remove"} /\ l.res = ResOk
  /\ l.key \in DOMAIN st.lp
  /\ st.rc + 1 >= COMPACT_REDUNDANT_THRESHOLD

\* C18: a call attempts a compaction exactly when it is a set that
\* overwrites an existing key or a successful remove that brings the counter
\* to the threshold or above (never a get, a failed remove, a set of a fresh
\* key, an open or a teardown); a failed attempt keeps the incremented
\* counter, so that the next such call attempts again; an attempt that did
\* not fail leaves the counter below the threshold.
C18_CompactionTriggerAndRetry ==
  [][/\ (last'.compact # "none") <=> Triggers(Cur, last')
     /\ (last'.compact = "failed") =>
          /\ redundant_count' = redundant_count + 1
          /\ redundant_count' >= COMPACT_REDUNDANT_THRESHOLD
     /\ (last'.compact = "ok") => redundant_count' < COMPACT_REDUNDANT_THRESHOLD]_vars

\* C18 witness: a second attempt in a row has just failed, leaving the
\* counter above the threshold
C18_Witness ==
  /\ alive /\ last.compact = "failed"
  /\ redundant_count > COMPACT_REDUNDANT_THRESHOLD

\* C19: whenever the process is killed between two calls of a run without
\* a filesystem failure, the bytes the log file holds end at a record
\* boundary and open succeeds on the directory.
C19_FileEndsAtRecordBoundary ==
  (~alive /\ last.op = "crash" /\ faults = 0) =>
    /\ Replay(file, 0, EmptyMap, 0).ok
    /\ OpenCall(file, tmp_exists, "none").res = ResOk

\* C20: a set or remove that returns the error of a failed append leaves
\* the index and the counter unchanged and every get as it was, the logical
\* stream is still a sequence of complete records, and a teardown followed
\* by open succeeds.
C20_FailedAppendChangesNothing ==
  [][(last'.op \in {"set", "remove"} /\ last'.res = ResErr("Serde")) =>
       /\ log_pointer' = log_pointer
       /\ redundant_count' = redundant_count
       /\ \A k \in Keys : get(Cur', k) = get(Cur, k)
       /\ StreamIndex(Cur').ok
       /\ OpenCall(DropCall(Cur', FALSE).st.file, tmp_exists', "none").res = ResOk]_vars

====
